---- MODULE Spec2Model ----
(***************************************************************************)
(* Token authentication of notifications_python_client/authentication.py.  *)
(*                                                                         *)
(* A client creates a signed token (create_jwt_token), the token travels   *)
(* on the wire where any one segment may be changed or the token cut, and  *)
(* a receiver extracts the issuer (get_token_issuer), looks the secret up  *)
(* and verifies (decode_jwt_token).  Client and receiver read their own    *)
(* system clocks: the receiver's clock is `time`, the client's is          *)
(* `time + skew`.                                                          *)
(*                                                                         *)
(* Python values are tagged records (Str, Bytes, Num).  The calls into the *)
(* jwt package are modelled by what the package does: JSON text is a       *)
(* sequence of key/value pairs, a base64url segment carries the bytes it   *)
(* encodes plus unused trailing bits, HMAC-SHA256 is a symbolic injective  *)
(* function of key and signing input.  Tokens in this model carry only     *)
(* the keys iss and iat, with integer iat.                                 *)
(***************************************************************************)
EXTENDS Integers, Sequences, FiniteSets, TLC

VARIABLES time, skew, made, wire, tampered, issuer, verdict

vars == <<time, skew, made, wire, tampered, issuer, verdict>>

-----------------------------------------------------------------------------
(* Program constants                                                       *)

__algorithm__ == "HS256"
__type__ == "JWT"
__bound__ == 30

-----------------------------------------------------------------------------
(* Bounds                                                                  *)

\* the client's clock is at most this many seconds ahead of or behind the receiver's
MaxSkew == 32
\* seconds the receiver's clock advances during a behaviour
MaxElapsed == 1
\* seconds the clock may advance between the two clock reads of one verification
MaxDrift == 1

\* receiver's clock at the start (epoch seconds)
T0 == 100

-----------------------------------------------------------------------------
(* Python values                                                           *)

Str(x) == [t |-> "str", s |-> x, n |-> 0]
Bytes(x) == [t |-> "bytes", s |-> x, n |-> 0]
Num(i) == [t |-> "num", s |-> "", n |-> i]
None == [t |-> "none", s |-> "", n |-> 0]

\* truth value of a Python object, as `assert x` tests it
Truthy(v) ==
    CASE v.t = "num" -> v.n # 0
      [] v.t = "none" -> FALSE
      [] OTHER -> v.s # ""

\* str.encode()
str_encode(v) == Bytes(v.s)

\* int(x) of a number
int(v) == v.n

\* the dict of a call that produced none
NoDict == [none |-> None]

-----------------------------------------------------------------------------
(* The jwt package, as called from authentication.py                       *)

\* order in which the keys of a dict are written out
KeyOrder == <<"typ", "alg", "iss", "iat", "req", "pay">>

\* json.dumps(dict): the text, a sequence of key/value pairs
json_dumps(d) ==
    LET F[i \in 0..Len(KeyOrder)] ==
            IF i = 0 THEN <<>>
            ELSE IF KeyOrder[i] \in DOMAIN d
                 THEN Append(F[i - 1], [k |-> KeyOrder[i], v |-> d[KeyOrder[i]]])
                 ELSE F[i - 1]
    IN F[Len(KeyOrder)]

\* json.loads(text): the empty text is not JSON; a later duplicate key wins
json_loads(text) ==
    IF text = <<>> THEN [ok |-> FALSE, dict |-> NoDict]
    ELSE [ok |-> TRUE,
          dict |-> [key \in {text[i].k : i \in DOMAIN text} |->
                      LET last == CHOOSE i \in DOMAIN text :
                                    /\ text[i].k = key
                                    /\ \A j \in DOMAIN text : text[j].k = key => j <= i
                      IN text[last].v]]

\* base64url_encode(bytes): canonical, no unused trailing bits set
base64url_encode(bytes) == [good |-> TRUE, data |-> bytes, tail |-> 0]

\* base64url_decode(segment): fails on bad padding, ignores the trailing bits
base64url_decode(seg) ==
    IF seg.good THEN [ok |-> TRUE, bytes |-> seg.data]
    ELSE [ok |-> FALSE, bytes |-> <<>>]

\* force_bytes(key) of HMACAlgorithm.prepare_key
force_bytes(v) == IF v.t = "bytes" THEN v ELSE Bytes(v.s)

\* HMAC-SHA256 of the signing input under the key
HMAC_sign(msg, key) == [alg |-> __algorithm__, key |-> key, msg |-> msg]

\* constant-time comparison of the signature with the expected one
HMAC_verify(msg, key, sig) == sig = <<HMAC_sign(msg, key)>>

\* jwt.encode(payload, key, headers=headers): header.payload.signature
jwt_encode(payload, key, headers) ==
    LET header == [k \in DOMAIN headers \cup {"typ", "alg"} |->
                     IF k \in DOMAIN headers THEN headers[k]
                     ELSE IF k = "typ" THEN Str("JWT") ELSE Str("HS256")]
        header_segment == base64url_encode(json_dumps(header))
        payload_segment == base64url_encode(json_dumps(payload))
        signing_input == <<header_segment, payload_segment>>
        signature == <<HMAC_sign(signing_input, force_bytes(key))>>
    IN <<header_segment, payload_segment, base64url_encode(signature)>>

\* jwt.decode(token, key, verify, algorithms, leeway) at library clock `now`:
\* _load (structure), then _verify_signature, then the payload as JSON, then
\* _validate_claims (iat not in the future beyond the leeway)
jwt_decode(token, key, verify, algorithms, leeway, now) ==
    LET DecodeError == [exc |-> "DecodeError", payload |-> NoDict]
    IN
    IF Len(token) < 3 THEN DecodeError
    ELSE
    LET signing_input == <<token[1], token[2]>>
        header_data == base64url_decode(token[1])
        header == json_loads(header_data.bytes)
        payload_data == base64url_decode(token[2])
        signature == base64url_decode(token[3])
        payload == json_loads(payload_data.bytes)
    IN
    IF ~header_data.ok \/ ~header.ok THEN DecodeError
    ELSE IF ~payload_data.ok \/ ~signature.ok THEN DecodeError
    ELSE IF verify /\ "alg" \notin DOMAIN header.dict
        THEN [exc |-> "KeyError", payload |-> NoDict]
    ELSE IF verify /\ header.dict["alg"] \notin algorithms
        THEN [exc |-> "InvalidAlgorithmError", payload |-> NoDict]
    ELSE IF verify /\ ~HMAC_verify(signing_input, force_bytes(key), signature.bytes)
        THEN DecodeError
    ELSE IF ~payload.ok THEN DecodeError
    ELSE IF verify /\ "iat" \in DOMAIN payload.dict
                   /\ int(payload.dict["iat"]) > now + leeway
        THEN [exc |-> "InvalidIssuedAtError", payload |-> NoDict]
    ELSE [exc |-> "", payload |-> payload.dict]

-----------------------------------------------------------------------------
(* authentication.py                                                       *)

NoToken == <<>>

\* calendar.timegm(time.gmtime()) on the client's and on the receiver's host
epoch_seconds(host) == IF host = "client" THEN time + skew ELSE time

\* decode_token(token): decode without checking the signature
decode_token(token) ==
    jwt_decode(token, None, FALSE, {Str(__algorithm__)}, 0, 0)

\* create_jwt_token signing with the client id in place of the secret
create_jwt_token_key_swapped(request_method, request_path, secret, client_id, request_body, now) ==
    IF ~Truthy(secret)
        THEN [ret |-> "AssertionError", msg |-> "Missing secret key",
              token |-> NoToken, clock_read |-> FALSE]
    ELSE IF ~Truthy(client_id)
        THEN [ret |-> "AssertionError", msg |-> "Missing client id",
              token |-> NoToken, clock_read |-> FALSE]
    ELSE
        LET headers == [typ |-> Str(__type__), alg |-> Str(__algorithm__)]
            claims == [iss |-> client_id, iat |-> Num(now)]
        IN [ret |-> "token", msg |-> "",
            token |-> jwt_encode(claims, client_id, headers), clock_read |-> TRUE]

\* create_jwt_token without the assertion on client_id
create_jwt_token_no_client_assert(request_method, request_path, secret, client_id, request_body, now) ==
    IF ~Truthy(secret)
        THEN [ret |-> "AssertionError", msg |-> "Missing secret key",
              token |-> NoToken, clock_read |-> FALSE]
    ELSE
        LET headers == [typ |-> Str(__type__), alg |-> Str(__algorithm__)]
            claims == [iss |-> client_id, iat |-> Num(now)]
        IN [ret |-> "token", msg |-> "",
            token |-> jwt_encode(claims, secret, headers), clock_read |-> TRUE]

\* create_jwt_token putting the request method into a signed req claim
create_jwt_token_signs_request(request_method, request_path, secret, client_id, request_body, now) ==
    IF ~Truthy(secret)
        THEN [ret |-> "AssertionError", msg |-> "Missing secret key",
              token |-> NoToken, clock_read |-> FALSE]
    ELSE IF ~Truthy(client_id)
        THEN [ret |-> "AssertionError", msg |-> "Missing client id",
              token |-> NoToken, clock_read |-> FALSE]
    ELSE
        LET headers == [typ |-> Str(__type__), alg |-> Str(__algorithm__)]
            claims == [iss |-> client_id, iat |-> Num(now), req |-> request_method]
        IN [ret |-> "token", msg |-> "",
            token |-> jwt_encode(claims, secret, headers), clock_read |-> TRUE]

\* create_jwt_token(request_method, request_path, secret, client_id, request_body)
\* with `now` the value epoch_seconds() returns when it is called
create_jwt_token(request_method, request_path, secret, client_id, request_body, now) ==
    IF ~Truthy(secret)
        THEN [ret |-> "AssertionError", msg |-> "Missing secret key",
              token |-> NoToken, clock_read |-> FALSE]
    ELSE IF ~Truthy(client_id)
        THEN [ret |-> "AssertionError", msg |-> "Missing client id",
              token |-> NoToken, clock_read |-> FALSE]
    ELSE
        LET headers == [typ |-> Str(__type__), alg |-> Str(__algorithm__)]
            claims == [iss |-> client_id, iat |-> Num(now)]
        IN [ret |-> "token", msg |-> "",
            token |-> jwt_encode(claims, secret, headers), clock_read |-> TRUE]

\* get_token_issuer returning the iat claim
get_token_issuer_wrong_claim(token) ==
    LET unverified == decode_token(token)
    IN IF unverified.exc = "DecodeError"
           THEN [ret |-> "TokenDecodeError", value |-> None]
       ELSE IF unverified.exc # ""
           THEN [ret |-> unverified.exc, value |-> None]
       ELSE IF "iss" \notin DOMAIN unverified.payload
           THEN [ret |-> "AssertionError", value |-> None]
       ELSE [ret |-> "value", value |-> unverified.payload["iat"]]

\* get_token_issuer reading the claim with dict.get and no assertion
get_token_issuer_no_assert(token) ==
    LET unverified == decode_token(token)
    IN IF unverified.exc = "DecodeError"
           THEN [ret |-> "TokenDecodeError", value |-> None]
       ELSE IF unverified.exc # ""
           THEN [ret |-> unverified.exc, value |-> None]
       ELSE IF "iss" \notin DOMAIN unverified.payload
           THEN [ret |-> "value", value |-> None]
       ELSE [ret |-> "value", value |-> unverified.payload["iss"]]

\* get_token_issuer(token)
get_token_issuer(token) ==
    LET unverified == decode_token(token)
    IN IF unverified.exc = "DecodeError"
           THEN [ret |-> "TokenDecodeError", value |-> None]
       ELSE IF unverified.exc # ""
           THEN [ret |-> unverified.exc, value |-> None]
       ELSE IF "iss" \notin DOMAIN unverified.payload
           THEN [ret |-> "AssertionError", value |-> None]
       ELSE [ret |-> "value", value |-> unverified.payload["iss"]]

\* decode_jwt_token expiring a token at exactly iat + __bound__
decode_jwt_token_expires_early(token, secret, request_method, request_path, request_payload, lib_now, now) ==
    LET decoded == jwt_decode(token, str_encode(secret), TRUE,
                              {Str(__algorithm__)}, __bound__, lib_now)
        decoded_token == decoded.payload
    IN IF decoded.exc = "InvalidIssuedAtError"
           THEN [ret |-> "TokenExpiredError", msg |-> "Token has invalid iat field",
                 claims |-> decode_token(token).payload]
       ELSE IF decoded.exc = "DecodeError"
           THEN [ret |-> "TokenDecodeError", msg |-> "Invalid token", claims |-> NoDict]
       ELSE IF decoded.exc # ""
           THEN [ret |-> decoded.exc, msg |-> "", claims |-> NoDict]
       ELSE IF "iss" \notin DOMAIN decoded_token
           THEN [ret |-> "AssertionError", msg |-> "Missing iss field in token",
                 claims |-> NoDict]
       ELSE IF "iat" \notin DOMAIN decoded_token
           THEN [ret |-> "AssertionError", msg |-> "Missing iat field in token",
                 claims |-> NoDict]
       ELSE IF now >= int(decoded_token["iat"]) + __bound__
           THEN [ret |-> "TokenExpiredError", msg |-> "Token has expired",
                 claims |-> decoded_token]
       ELSE [ret |-> "True", msg |-> "", claims |-> NoDict]

\* decode_jwt_token decoding with verify=False
decode_jwt_token_unverified(token, secret, request_method, request_path, request_payload, lib_now, now) ==
    LET decoded == jwt_decode(token, str_encode(secret), FALSE,
                              {Str(__algorithm__)}, __bound__, lib_now)
        decoded_token == decoded.payload
    IN IF decoded.exc = "InvalidIssuedAtError"
           THEN [ret |-> "TokenExpiredError", msg |-> "Token has invalid iat field",
                 claims |-> decode_token(token).payload]
       ELSE IF decoded.exc = "DecodeError"
           THEN [ret |-> "TokenDecodeError", msg |-> "Invalid token", claims |-> NoDict]
       ELSE IF decoded.exc # ""
           THEN [ret |-> decoded.exc, msg |-> "", claims |-> NoDict]
       ELSE IF "iss" \notin DOMAIN decoded_token
           THEN [ret |-> "AssertionError", msg |-> "Missing iss field in token",
                 claims |-> NoDict]
       ELSE IF "iat" \notin DOMAIN decoded_token
           THEN [ret |-> "AssertionError", msg |-> "Missing iat field in token",
                 claims |-> NoDict]
       ELSE IF now > int(decoded_token["iat"]) + __bound__
           THEN [ret |-> "TokenExpiredError", msg |-> "Token has expired",
                 claims |-> decoded_token]
       ELSE [ret |-> "True", msg |-> "", claims |-> NoDict]

\* decode_jwt_token without the except clause for InvalidIssuedAtError
decode_jwt_token_iat_uncaught(token, secret, request_method, request_path, request_payload, lib_now, now) ==
    LET decoded == jwt_decode(token, str_encode(secret), TRUE,
                              {Str(__algorithm__)}, __bound__, lib_now)
        decoded_token == decoded.payload
    IN IF decoded.exc = "DecodeError"
           THEN [ret |-> "TokenDecodeError", msg |-> "Invalid token", claims |-> NoDict]
       ELSE IF decoded.exc # ""
           THEN [ret |-> decoded.exc, msg |-> "", claims |-> NoDict]
       ELSE IF "iss" \notin DOMAIN decoded_token
           THEN [ret |-> "AssertionError", msg |-> "Missing iss field in token",
                 claims |-> NoDict]
       ELSE IF "iat" \notin DOMAIN decoded_token
           THEN [ret |-> "AssertionError", msg |-> "Missing iat field in token",
                 claims |-> NoDict]
       ELSE IF now > int(decoded_token["iat"]) + __bound__
           THEN [ret |-> "TokenExpiredError", msg |-> "Token has expired",
                 claims |-> decoded_token]
       ELSE [ret |-> "True", msg |-> "", claims |-> NoDict]

\* decode_jwt_token(token, secret, request_method, request_path, request_payload)
\* with lib_now the clock the jwt package reads and now the value of
\* epoch_seconds() at the freshness check
decode_jwt_token(token, secret, request_method, request_path, request_payload, lib_now, now) ==
    LET decoded == jwt_decode(token, str_encode(secret), TRUE,
                              {Str(__algorithm__)}, __bound__, lib_now)
        decoded_token == decoded.payload
    IN IF decoded.exc = "InvalidIssuedAtError"
           THEN [ret |-> "TokenExpiredError", msg |-> "Token has invalid iat field",
                 claims |-> decode_token(token).payload]
       ELSE IF decoded.exc = "DecodeError"
           THEN [ret |-> "TokenDecodeError", msg |-> "Invalid token", claims |-> NoDict]
       ELSE IF decoded.exc # ""
           THEN [ret |-> decoded.exc, msg |-> "", claims |-> NoDict]
       ELSE IF "iss" \notin DOMAIN decoded_token
           THEN [ret |-> "AssertionError", msg |-> "Missing iss field in token",
                 claims |-> NoDict]
       ELSE IF "iat" \notin DOMAIN decoded_token
           THEN [ret |-> "AssertionError", msg |-> "Missing iat field in token",
                 claims |-> NoDict]
       ELSE IF now > int(decoded_token["iat"]) + __bound__
           THEN [ret |-> "TokenExpiredError", msg |-> "Token has expired",
                 claims |-> decoded_token]
       ELSE [ret |-> "True", msg |-> "", claims |-> NoDict]

-----------------------------------------------------------------------------
(* Callers: the values the operations are called with                      *)

Secrets == {Str(""), Str("topsecret"), Str("othersecret")}
ClientIds == {Str(""), Str("client-123"), Str("client-456")}

Methods == {Str("GET"), Str("POST")}
Paths == {Str("/notifications/123"), Str("/notifications/sms")}
Bodies == {None, Str("{to:1234}")}

\* the requests the callers make
Requests == {[method |-> Str("GET"), path |-> Str("/notifications/123"), body |-> None],
             [method |-> Str("POST"), path |-> Str("/notifications/sms"),
              body |-> Str("{to:1234}")]}

\* the receiver's secret store, keyed by issuer
secret_store == [iss \in {Str("client-123"), Str("client-456")} |->
                    IF iss = Str("client-123") THEN Str("topsecret")
                    ELSE Str("othersecret")]

NoCall == [ret |-> "none"]

-----------------------------------------------------------------------------
(* What a token's segments can be changed to on the wire                   *)

\* the same bytes, written with other unused trailing bits
Reencoded(seg) == [seg EXCEPT !.tail = 1 - seg.tail]

\* a segment that is not base64url
Garbled == [good |-> FALSE, data |-> <<>>, tail |-> 0]

HeaderChanges(token) ==
    { Reencoded(token[1]), Garbled,
      base64url_encode(json_dumps([typ |-> Str(__type__), alg |-> Str("HS512")])) }

ClaimsChanges(token) ==
    LET claims == json_loads(base64url_decode(token[2]).bytes).dict
    IN { Garbled,
         base64url_encode(json_dumps([iat |-> claims["iat"]])),
         base64url_encode(json_dumps([claims EXCEPT !["iat"] = Num(time)])) }
       \cup { base64url_encode(json_dumps([claims EXCEPT !["iss"] = c])) :
                c \in DOMAIN secret_store }

SignatureChanges(token) ==
    { Reencoded(token[3]), Garbled,
      base64url_encode(<<HMAC_sign(<<token[1], token[2]>>, Bytes("guess"))>>) }

\* the values segment i of an intact token can be changed to
Changes(token, i) ==
    IF Len(token) # 3 THEN {}
    ELSE CASE i = 1 -> HeaderChanges(token)
           [] i = 2 -> ClaimsChanges(token)
           [] i = 3 -> SignatureChanges(token)

SegmentName(i) == CASE i = 1 -> "header" [] i = 2 -> "claims" [] i = 3 -> "signature"

-----------------------------------------------------------------------------
(* State machine                                                           *)

Init ==
    /\ time = T0
    /\ skew \in -MaxSkew..MaxSkew
    /\ made = NoCall
    /\ wire = NoToken
    /\ tampered = "none"
    /\ issuer = NoCall
    /\ verdict = NoCall

\* the clocks advance by a second; a token's life ends with its verification
Tick ==
    /\ verdict = NoCall
    /\ time < T0 + MaxElapsed
    /\ time' = time + 1
    /\ UNCHANGED <<skew, made, wire, tampered, issuer, verdict>>

\* the client calls create_jwt_token and sends the token it gets
Create(req, secret, client_id) ==
    LET now == epoch_seconds("client")
        out == create_jwt_token(req.method, req.path, secret, client_id, req.body, now)
    IN /\ made = NoCall
       /\ made' = [ret |-> out.ret, out |-> out, secret |-> secret,
                   client_id |-> client_id, now |-> now]
       /\ wire' = out.token
       /\ tampered' = "none"
       /\ issuer' = NoCall
       /\ verdict' = NoCall
       /\ UNCHANGED <<time, skew>>

\* one segment of the token on the wire is changed to a different value
Tamper(i, seg) ==
    /\ Len(wire) = 3
    /\ tampered = "none"
    /\ seg # wire[i]
    /\ wire' = [wire EXCEPT ![i] = seg]
    /\ tampered' = SegmentName(i)
    /\ issuer' = NoCall
    /\ verdict' = NoCall
    /\ UNCHANGED <<time, skew, made>>

\* the token on the wire loses its last segment
Truncate ==
    /\ Len(wire) = 3
    /\ tampered = "none"
    /\ wire' = SubSeq(wire, 1, 2)
    /\ tampered' = "truncated"
    /\ issuer' = NoCall
    /\ verdict' = NoCall
    /\ UNCHANGED <<time, skew, made>>

\* the receiver calls get_token_issuer on the token it received
GetIssuer ==
    /\ wire # NoToken
    /\ issuer = NoCall
    /\ verdict = NoCall
    /\ issuer' = get_token_issuer(wire)
    /\ UNCHANGED <<time, skew, made, wire, tampered, verdict>>

\* decode_jwt_token runs; the clock may advance between its two clock reads
Verify(secret, req, drift) ==
    LET lib_now == epoch_seconds("receiver")
        now == lib_now + drift
        out == decode_jwt_token(wire, secret, req.method, req.path, req.body,
                                lib_now, now)
    IN /\ wire # NoToken
       /\ verdict = NoCall
       /\ now <= T0 + MaxElapsed
       /\ verdict' = [ret |-> out.ret, out |-> out, secret |-> secret,
                      lib_now |-> lib_now, now |-> now]
       /\ time' = now
       /\ UNCHANGED <<skew, made, wire, tampered, issuer>>

\* a caller verifies the token with a secret of its choice
Decode(secret, req, drift) == Verify(secret, req, drift)

\* the receiver verifies with the secret stored for the issuer it extracted
VerifyRequest(req, drift) ==
    /\ issuer.ret = "value"
    /\ issuer.value \in DOMAIN secret_store
    /\ Verify(secret_store[issuer.value], req, drift)

Next ==
    \/ Tick
    \/ \E req \in Requests, secret \in Secrets, client_id \in ClientIds :
          Create(req, secret, client_id)
    \/ \E i \in 1..3 :
          \E seg \in (IF tampered = "none" THEN Changes(wire, i) ELSE {}) : Tamper(i, seg)
    \/ Truncate
    \/ GetIssuer
    \/ \E secret \in Secrets, req \in Requests, drift \in 0..MaxDrift :
          Decode(secret, req, drift)
    \/ \E req \in Requests, drift \in 0..MaxDrift : VerifyRequest(req, drift)

Spec == Init /\ [][Next]_vars

-----------------------------------------------------------------------------
(* Properties                                                              *)

\* the token on the wire is the one create_jwt_token returned
Intact == made.ret = "token" /\ tampered = "none"

Issued == issuer.ret # "none"
Verified == verdict.ret # "none"

\* the receiver verified with the secret stored for the issuer it extracted
LookedUp ==
    /\ Verified
    /\ issuer.ret = "value"
    /\ issuer.value \in DOMAIN secret_store
    /\ verdict.secret = secret_store[issuer.value]

\* the token is cut, or one of its segments is not base64url
Malformed(token) == Len(token) < 3 \/ \E i \in 1..Len(token) : token[i] = Garbled

\* the signature segment decodes to the HMAC of the first two segments under secret
ValidlySigned(token, secret) ==
    /\ Len(token) = 3
    /\ \A i \in 1..3 : token[i].good
    /\ token[3].data = <<[alg |-> "HS256", key |-> Bytes(secret.s),
                          msg |-> <<token[1], token[2]>>]>>

\* the iat the claims segment of a well-formed token carries
IatOf(token) == (CHOOSE p \in {token[2].data[i] : i \in DOMAIN token[2].data} : p.k = "iat").v.n

HasIat(token) ==
    /\ ~Malformed(token)
    /\ \E i \in DOMAIN token[2].data : token[2].data[i].k = "iat"

\* C1: a token create_jwt_token returned, given to decode_jwt_token with the same
\* secret at the same clock reading, makes it return True
C1_CreateThenVerify ==
    (/\ Intact /\ Verified
     /\ verdict.secret = made.secret
     /\ verdict.lib_now = made.now /\ verdict.now = made.now)
    => verdict.ret = "True"

C1_Witness ==
    /\ Intact /\ Verified
    /\ verdict.secret = made.secret
    /\ verdict.lib_now = made.now /\ verdict.now = made.now
    /\ verdict.ret = "True"

\* C2: get_token_issuer of the token create_jwt_token(client_id=X) returned is X
C2_IssuerRoundTrip ==
    (Intact /\ Issued) => (issuer.ret = "value" /\ issuer.value = made.client_id)

C2_Witness ==
    /\ Intact /\ Issued
    /\ issuer.value = Str("client-456")
    /\ made.secret = Str("topsecret")

\* C3: a created token with one segment changed makes decode_jwt_token, called with
\* the original secret, raise TokenDecodeError
C3_TamperedIsDecodeError ==
    (/\ made.ret = "token"
     /\ tampered \in {"header", "claims", "signature"}
     /\ Verified
     /\ verdict.secret = made.secret)
    => verdict.ret = "TokenDecodeError"

C5_EmptyInputsAssert ==
    (made.ret # "none" /\ (made.secret = Str("") \/ made.client_id = Str("")))
    => /\ made.ret = "AssertionError"
       /\ made.out.token = NoToken
       /\ ~made.out.clock_read
       /\ wire = NoToken
       /\ \A m \in Methods, p \in Paths, b \in Bodies :
            \A n \in {made.now, made.now + 1} :
               create_jwt_token(m, p, made.secret, made.client_id, b, n) = made.out

C5_Witness ==
    /\ made.ret = "AssertionError"
    /\ made.secret # Str("")
    /\ made.client_id = Str("")

\* C6: get_token_issuer raises TokenDecodeError for a structurally malformed token, an
\* assertion error for a well-formed token whose claims lack iss, and returns a value
\* for neither
C6_IssuerErrors ==
    Issued
    => /\ Malformed(wire) => issuer.ret = "TokenDecodeError"
       /\ (~Malformed(wire) /\ \A i \in DOMAIN wire[2].data : wire[2].data[i].k # "iss")
             => issuer.ret = "AssertionError"
       /\ issuer.ret = "value"
             => /\ ~Malformed(wire)
                /\ \E i \in DOMAIN wire[2].data :
                      wire[2].data[i] = [k |-> "iss", v |-> issuer.value]

C6_Witness ==
    /\ Issued
    /\ ~Malformed(wire)
    /\ wire[2].data # <<>>
    /\ \A i \in DOMAIN wire[2].data : wire[2].data[i].k # "iss"
    /\ issuer.ret = "AssertionError"

C10_SignatureBeforeFreshness ==
    Verified
    => /\ verdict.ret = "TokenExpiredError" => ValidlySigned(wire, verdict.secret)
       /\ (/\ HasIat(wire)
           /\ (verdict.now > IatOf(wire) + 30 \/ IatOf(wire) > verdict.lib_now + 30)
           /\ ~ValidlySigned(wire, verdict.secret))
             => verdict.ret = "TokenDecodeError"

====
